---- MODULE Spec2Model ----
(***************************************************************************)
(* Model of the ONS energy-balance dashboard (src/app.py).                 *)
(*                                                                         *)
(* The script main() is re-executed top to bottom on every user            *)
(* interaction (a "render pass").  Two process-wide caches survive the     *)
(* passes: the st.cache_resource entry of init_clickhouse_connection and   *)
(* the st.cache_data(ttl=300) entries of load_data.                        *)
(*                                                                         *)
(* Nullable numbers are modelled as sequences: <<>> is NULL, <<v>> is v.   *)
(* Real numbers are modelled as exact fractions <<numerator, denominator>>.*)
(***************************************************************************)
EXTENDS Integers, Sequences, FiniteSets, TLC

VARIABLES
    pc,           \* position of the script: idle, connect, subsistemas, principal, done, stopped
    now,          \* wall clock, seconds
    ticks,        \* number of clock advances so far
    passes,       \* number of render passes started
    dbUp,         \* the database is reachable and answers queries
    connCache,    \* st.cache_resource entry of init_clickhouse_connection
    dataCache,    \* st.cache_data entries of load_data
    client,       \* local variable client of main
    data_inicio,  \* local variable data_inicio of main
    data_fim,     \* local variable data_fim of main
    sel,          \* local variable subsistemas_selecionados of main
    df,           \* local variable df of main
    out,          \* elements rendered so far in this pass, in order
    metrics,      \* the four st.metric values of this pass
    fig,          \* the traces of the plotly figure of this pass
    calls,        \* load_data calls of this pass, in order
    hist,         \* per query text: the latest upstream query_df call and the number of calls
    connTried     \* get_client was called in this pass

vars == <<pc, now, ticks, passes, dbUp, connCache, dataCache, client,
          data_inicio, data_fim, sel, df, out, metrics, fig, calls, hist,
          connTried>>

(***************************************************************************)
(* Bounds of the model                                                     *)
(***************************************************************************)
MaxPasses == 2
MaxTicks == 2
MaxPick == 1
MaxRows == 2
NumSubs == 10

(***************************************************************************)
(* Program constants                                                       *)
(***************************************************************************)
TTL == 300
DefaultCount == 3
PaletteSize == 9
SamplesPerHour == 2

TickSteps == {1, 299}
Periodos == {<<1>>, <<1, 2>>}
Loads == {1000, 2000, 2001}
GenVals == {<<>>, <<-1>>, <<0>>, <<1>>}

(***************************************************************************)
(* Generic helpers                                                         *)
(***************************************************************************)
Range(s) == {s[i] : i \in DOMAIN s}

Distinct(s) == \A i, j \in DOMAIN s : i # j => s[i] # s[j]

SeqsUpTo(S, n) == UNION {[1..k -> S] : k \in 0..n}

RECURSIVE SumSeq(_)
SumSeq(s) == IF s = <<>> THEN 0 ELSE Head(s) + SumSeq(Tail(s))

RECURSIVE MaxSeq(_)
MaxSeq(s) ==
    IF Len(s) = 1 THEN s[1]
    ELSE LET m == MaxSeq(Tail(s)) IN IF Head(s) >= m THEN Head(s) ELSE m

Column(t, c) == [i \in DOMAIN t |-> t[i][c]]

(***************************************************************************)
(* The database (the environment of the program)                           *)
(***************************************************************************)
AllNames == [i \in 1..NumSubs |-> i]

\* Answers of the DISTINCT query: sorted lists of non-empty labels.
Catalogs == {<<>>, <<1>>}

CatalogTable(names) == [i \in DOMAIN names |-> [nom_subsistema |-> names[i]]]

RawRow(i, n, c, h, t, e, s) ==
    [din_instante |-> i, nom_subsistema |-> n, val_carga |-> c,
     val_gerhidraulica |-> h, val_gertermica |-> t,
     val_gereolica |-> e, val_gersolar |-> s]

\* Rows of the table that fall in the window, for the render passes of Spec:
\* only rows of the requested subsystems (the IN clause), in instant order.
FlowRaw(names) ==
    IF names = <<>> THEN {<<>>}
    ELSE {<<>>,
          <<RawRow(1, names[1], 1000, <<1>>, <<1>>, <<>>, <<>>)>>,
          <<RawRow(1, names[1], 1000, <<1>>, <<1>>, <<>>, <<>>),
            RawRow(2, names[Len(names)], 2000, <<>>, <<1>>, <<1>>, <<0>>)>>}

\* The generation values stored with a row of load c.
GensOf(c) ==
    IF c = 1000 THEN <<<<1>>, <<1>>, <<>>, <<>>>>
    ELSE IF c = 2000 THEN <<<<>>, <<1>>, <<1>>, <<0>>>>
    ELSE <<<<>>, <<>>, <<>>, <<>>>>

\* Tables of up to MaxRows rows with varying loads, for SpecRender: the
\* rows belong to the first two requested subsystems.
LoadRows(names) ==
    {<<n, c>> : n \in {names[i] : i \in {j \in DOMAIN names : j <= 2}}, c \in Loads}

LoadTable(t) ==
    [i \in DOMAIN t |->
        RawRow(i, t[i][1], t[i][2], GensOf(t[i][2])[1], GensOf(t[i][2])[2],
               GensOf(t[i][2])[3], GensOf(t[i][2])[4])]

\* One-row tables with any combination of generation values, for SpecRender.
GenTable(names, h, t, e, s) == <<RawRow(1, names[1], 1000, h, t, e, s)>>

\* The requested subsystems without those of H, one row each.
Present(names, H) ==
    LET P == SelectSeq(names, LAMBDA n : n \notin H)
    IN  [i \in DOMAIN P |-> RawRow(i, P[i], 1000, <<1>>, <<1>>, <<>>, <<>>)]

\* Tables where at most one of the requested subsystems has no row in the
\* window, or only one of them has, for SpecRender.
PresenceRaw(names) ==
    {Present(names, {})}
        \cup {Present(names, {n}) : n \in Range(names)}
        \cup {Present(names, Range(names) \ {n}) : n \in Range(names)}

(***************************************************************************)
(* Query texts.  A query text is modelled by the parts interpolated into   *)
(* it: <<kind, data_inicio, data_fim, subsistemas>>.                       *)
(***************************************************************************)
subsistemas_query == <<"subsistemas", 0, 0, <<>>>>

query_principal(inicio, fim, selecionados) == <<"principal", inicio, fim, selecionados>>

COALESCE(v, d) == IF v = <<>> THEN d ELSE v[1]

\* The SELECT list of the main query, applied to one stored row.
SelectRow(r) ==
    [din_instante |-> r.din_instante,
     nom_subsistema |-> r.nom_subsistema,
     val_carga |-> r.val_carga,
     geracao_hidraulica |-> COALESCE(r.val_gerhidraulica, 0),
     geracao_termica |-> COALESCE(r.val_gertermica, 0),
     geracao_eolica |-> COALESCE(r.val_gereolica, 0),
     geracao_solar |-> COALESCE(r.val_gersolar, 0),
     geracao_total |-> COALESCE(r.val_gerhidraulica, 0) + COALESCE(r.val_gertermica, 0)
                       + COALESCE(r.val_gereolica, 0) + COALESCE(r.val_gersolar, 0)]

SelectPrincipal(raw) == [i \in DOMAIN raw |-> SelectRow(raw[i])]

\* What _client.query_df does with a query: it raises when there is no
\* client or the database does not answer, and returns the table otherwise.
query_df(table) ==
    IF client = "client" /\ dbUp THEN [ok |-> TRUE, df |-> table] ELSE [ok |-> FALSE, df |-> <<>>]

(***************************************************************************)
(* load_data and its st.cache_data(ttl=300) cache                          *)
(***************************************************************************)
\* An entry that is still alive at the end of its last second.
FreshInclusive(e) == now - e.ins <= TTL

\* An entry is alive for TTL seconds counted from its insertion.
Fresh(e) == now - e.ins < TTL

CacheHit(q) == {e \in dataCache : e.q = q /\ Fresh(e)}

\* A body that swallows the error without showing it.
load_data_body_silent(res) ==
    IF res.ok THEN [ret |-> res.df, msgs |-> <<>>]
    ELSE [ret |-> <<>>, msgs |-> <<>>]

\* The body of load_data: run on a cache miss only.
load_data_body(res) ==
    IF res.ok THEN [ret |-> res.df, msgs |-> <<>>]
    ELSE [ret |-> <<>>, msgs |-> <<"error_consulta">>]

\* A store that keeps successful results only.
CacheStoreOkOnly(q, b) ==
    IF b.msgs # <<>> THEN {e \in dataCache : e.q # q /\ Fresh(e)}
    ELSE {e \in dataCache : e.q # q /\ Fresh(e)}
            \cup {[q |-> q, ins |-> now, val |-> b.ret, msgs |-> b.msgs]}

\* The entry stored after the body ran on a miss; expired entries are dropped.
CacheStore(q, b) ==
    {e \in dataCache : e.q # q /\ Fresh(e)}
        \cup {[q |-> q, ins |-> now, val |-> b.ret, msgs |-> b.msgs]}

\* What a read of a live entry does to the cache.
CacheTouch(e) == dataCache

\* load_data(client, q), where res is what query_df would do if called.
\* A hit returns the stored table and replays the stored messages.
load_data(q, res) ==
    IF CacheHit(q) # {}
    THEN LET e == CHOOSE x \in CacheHit(q) : TRUE
         IN  [ret |-> e.val, msgs |-> e.msgs, up |-> FALSE, cache |-> CacheTouch(e)]
    ELSE LET b == load_data_body(res)
         IN  [ret |-> b.ret, msgs |-> b.msgs, up |-> TRUE, cache |-> CacheStore(q, b)]

\* The record of one load_data call kept in calls.
Call(q, r, res) ==
    [q |-> q, t |-> now, ret |-> r.ret, up |-> r.up, failed |-> r.up /\ ~res.ok]

\* hist after a load_data call: only an upstream call changes it.
HistAfter(q, r, res) ==
    IF r.up
    THEN LET n == IF \E h \in hist : h.q = q
                  THEN (CHOOSE h \in hist : h.q = q).n ELSE 0
         IN  {h \in hist : h.q # q}
                \cup {[q |-> q, t |-> now, val |-> r.ret, n |-> n + 1,
                        failed |-> ~res.ok]}
    ELSE hist

(***************************************************************************)
(* init_clickhouse_connection and its st.cache_resource entry              *)
(***************************************************************************)
\* The body: get_client raises when the database is unreachable; the
\* exception is caught, two messages are shown and None is returned.
connection_body ==
    IF dbUp THEN [ret |-> "client", msgs |-> <<>>]
    ELSE [ret |-> "none", msgs |-> <<"error_conexao", "info_secrets">>]

\* The cached call: the entry, once stored, is returned for ever and its
\* messages are replayed; the return value None is stored like any other.
init_clickhouse_connection ==
    IF connCache # <<>>
    THEN [ret |-> connCache[1].val, msgs |-> connCache[1].msgs,
          tried |-> FALSE, cache |-> connCache]
    ELSE LET b == connection_body
         IN  [ret |-> b.ret, msgs |-> b.msgs, tried |-> TRUE,
              cache |-> <<[val |-> b.ret, msgs |-> b.msgs]>>]

(***************************************************************************)
(* The widgets                                                             *)
(***************************************************************************)
\* default= of the multiselect: the first three options when there are more.
DefaultSelection(disponiveis) ==
    IF Len(disponiveis) > DefaultCount
    THEN SubSeq(disponiveis, 1, DefaultCount) ELSE disponiveis

Reverse(s) == [i \in DOMAIN s |-> s[Len(s) + 1 - i]]

\* What the multiselect can return: the default, or options picked by the
\* user, without repetition, in the order they were picked.
UserSelections(disponiveis) ==
    {DefaultSelection(disponiveis), Reverse(disponiveis)}
        \cup {s \in SeqsUpTo(Range(disponiveis), MaxPick) : Distinct(s)}
        \cup {SubSeq(disponiveis, 1, k) : k \in 0..Len(disponiveis)}

(***************************************************************************)
(* Metrics (lines 126-144)                                                 *)
(***************************************************************************)
\* f"{x:,.0f}" of the fraction x: the nearest integer, ties to even.
RoundHalfEven(p, q) ==
    LET f == p \div q
        r == p - f * q
    IN  IF 2 * r < q THEN f
        ELSE IF 2 * r > q THEN f + 1
        ELSE IF f % 2 = 0 THEN f ELSE f + 1

Format0(x) == RoundHalfEven(x[1], x[2])

\* f"{x:.1f}" of the fraction x, in tenths.
Format1(x) == RoundHalfEven(10 * x[1], x[2])

carga_total(d) == <<SumSeq(Column(d, "val_carga")), SamplesPerHour>>

\* A mean taken over the rows of the first subsystem of the table only.
demanda_media_por_subsistema(d) ==
    LET g == SelectSeq(d, LAMBDA r : r.nom_subsistema = d[1].nom_subsistema)
    IN  <<SumSeq(Column(g, "val_carga")), Len(g)>>

demanda_media(d) == <<SumSeq(Column(d, "val_carga")), Len(d)>>

pico_demanda(d) == <<MaxSeq(Column(d, "val_carga")), 1>>

geracao_renovavel(d) ==
    SumSeq([i \in DOMAIN d |->
        d[i].geracao_hidraulica + d[i].geracao_eolica + d[i].geracao_solar])

geracao_total_soma(d) == SumSeq(Column(d, "geracao_total"))

renovavel_pct(d) ==
    IF geracao_total_soma(d) > 0
    THEN <<geracao_renovavel(d) * 100, geracao_total_soma(d)>>
    ELSE <<0, 1>>

Metrics(d) ==
    [carga_total |-> carga_total(d),
     demanda_media |-> demanda_media(d),
     pico_demanda |-> pico_demanda(d),
     renovavel_pct |-> renovavel_pct(d),
     energia_total_mwh |-> Format0(carga_total(d)),
     demanda_media_mw |-> Format0(demanda_media(d)),
     pico_demanda_mw |-> Format0(pico_demanda(d)),
     renovavel_decimos |-> Format1(renovavel_pct(d))]

(***************************************************************************)
(* Chart (lines 151-169)                                                   *)
(***************************************************************************)
\* A colour taken from the position after the selection index.
CorShifted(i) == (i + 1) % PaletteSize

\* cores[i % len(cores)], as an index into the palette.
Cor(i) == i % PaletteSize

RowsOf(d, subsistema) == SelectSeq(d, LAMBDA r : r.nom_subsistema = subsistema)

\* The loop over enumerate(subsistemas_selecionados), from index i on.
RECURSIVE Traces(_, _, _)
Traces(i, selecionados, d) ==
    IF i >= Len(selecionados) THEN <<>>
    ELSE LET subsistema == selecionados[i + 1]
             df_sub == RowsOf(d, subsistema)
         IN  (IF df_sub # <<>>
              THEN <<[name |-> subsistema, color |-> Cor(i),
                      x |-> Column(df_sub, "din_instante"),
                      y |-> Column(df_sub, "val_carga")]>>
              ELSE <<>>)
             \o Traces(i + 1, selecionados, d)

\* DataFrame.empty: the table has no row.
Empty(d) == d = <<>>

\* Truth value of a list: it has an element.
Truthy(l) == l # <<>>

\* A test that never sees a missing client.
SemClienteNever(c) == FALSE

\* Line 50: if not client
SemCliente(c) == c = "none"

\* A catalog that passes every table, empty or not.
SubsistemasOkAlways(df_subsistemas) == TRUE

\* Line 81: if not df_subsistemas.empty
SubsistemasOk(df_subsistemas) == ~Empty(df_subsistemas)

\* A selection test that lets the empty selection through.
TemSelecaoAlways(selecionados) == TRUE

\* Line 93: if subsistemas_selecionados
TemSelecao(selecionados) == Truthy(selecionados)

(***************************************************************************)
(* The render pass: main(), in three steps                                 *)
(***************************************************************************)
Init ==
    /\ pc = "idle"
    /\ now = 0
    /\ ticks = 0
    /\ passes = 0
    /\ dbUp \in BOOLEAN
    /\ connCache = <<>>
    /\ dataCache = {}
    /\ client = "unset"
    /\ data_inicio = 0
    /\ data_fim = 0
    /\ sel = <<>>
    /\ df = <<>>
    /\ out = <<>>
    /\ metrics = <<>>
    /\ fig = <<>>
    /\ calls = <<>>
    /\ hist = {}
    /\ connTried = FALSE

\* A user interaction (or the first page load) runs the script from the top.
Rerun ==
    /\ pc \in {"idle", "done", "stopped"}
    /\ passes < MaxPasses
    /\ passes' = passes + 1
    /\ pc' = "connect"
    /\ out' = <<"title", "markdown">>
    /\ client' = "unset"
    /\ data_inicio' = 0
    /\ data_fim' = 0
    /\ sel' = <<>>
    /\ df' = <<>>
    /\ metrics' = <<>>
    /\ fig' = <<>>
    /\ calls' = <<>>
    /\ connTried' = FALSE
    /\ UNCHANGED <<now, ticks, dbUp, connCache, dataCache, hist>>

\* Lines 48-69: the connection, st.stop() without one, then the date input.
Connect ==
    /\ pc = "connect"
    /\ LET c == init_clickhouse_connection
       IN  /\ client' = c.ret
           /\ connCache' = c.cache
           /\ connTried' = c.tried
           /\ IF SemCliente(c.ret)
              THEN /\ out' = out \o c.msgs
                   /\ pc' = "stopped"
                   /\ UNCHANGED <<data_inicio, data_fim>>
              ELSE \E periodo \in Periodos :
                   /\ out' = out \o c.msgs \o <<"sidebar_header", "date_input">>
                   /\ IF Len(periodo) = 2
                      THEN data_inicio' = periodo[1] /\ data_fim' = periodo[2]
                      ELSE data_inicio' = periodo[1] /\ data_fim' = periodo[1]
                   /\ pc' = "subsistemas"
    /\ UNCHANGED <<now, ticks, passes, dbUp, dataCache, sel, df, metrics, fig,
                   calls, hist>>

\* Lines 72-90: the catalog of subsystems and the multiselect.
Subsistemas ==
    /\ pc = "subsistemas"
    /\ \E names \in Catalogs :
        LET res == query_df(CatalogTable(names))
            r == load_data(subsistemas_query, res)
        IN  /\ dataCache' = r.cache
            /\ calls' = Append(calls, Call(subsistemas_query, r, res))
            /\ hist' = HistAfter(subsistemas_query, r, res)
            /\ IF SubsistemasOk(r.ret)
               THEN \E s \in UserSelections(Column(r.ret, "nom_subsistema")) :
                    /\ sel' = s
                    /\ out' = out \o r.msgs \o <<"multiselect">>
                    /\ pc' = "principal"
               ELSE /\ sel' = sel
                    /\ out' = out \o r.msgs \o <<"error_subsistemas">>
                    /\ pc' = "stopped"
    /\ UNCHANGED <<now, ticks, passes, dbUp, connCache, client, data_inicio,
                   data_fim, df, metrics, fig, connTried>>

\* Lines 93-230: the main query, the metrics, the chart, the detail panel
\* and the footer.  raw is what the table holds for the query when asked.
Principal(raw) ==
    /\ pc = "principal"
    /\ IF TemSelecao(sel)
       THEN LET q == query_principal(data_inicio, data_fim, sel)
                res == query_df(SelectPrincipal(raw))
                r == load_data(q, res)
            IN  /\ dataCache' = r.cache
                /\ calls' = Append(calls, Call(q, r, res))
                /\ hist' = HistAfter(q, r, res)
                /\ df' = r.ret
                /\ IF Empty(r.ret)
                   THEN /\ out' = out \o r.msgs \o <<"warning_sem_dados">>
                        /\ pc' = "stopped"
                        /\ UNCHANGED <<metrics, fig>>
                   ELSE /\ metrics' = <<Metrics(r.ret)>>
                        /\ fig' = Traces(0, sel, r.ret)
                        /\ out' = out \o r.msgs \o
                               <<"metric", "metric", "metric", "metric", "hr",
                                 "subheader", "plotly_chart", "expander",
                                 "hr", "footer">>
                        /\ pc' = "done"
       ELSE /\ out' = out \o <<"warning_selecione", "hr", "footer">>
            /\ pc' = "done"
            /\ UNCHANGED <<dataCache, calls, hist, df, metrics, fig>>
    /\ UNCHANGED <<now, ticks, passes, dbUp, connCache, client, data_inicio,
                   data_fim, sel, connTried>>

PrincipalFlow == \E raw \in FlowRaw(sel) : Principal(raw)

PrincipalLoads == \E t \in SeqsUpTo(LoadRows(sel), MaxRows) : Principal(LoadTable(t))

PrincipalGens ==
    /\ sel # <<>>
    /\ \E h \in GenVals, t \in GenVals, e \in GenVals, s \in GenVals :
        Principal(GenTable(sel, h, t, e, s))

PrincipalPresence == \E raw \in PresenceRaw(sel) : Principal(raw)

\* Time passes.
Tick ==
    /\ ticks < MaxTicks
    /\ \E d \in TickSteps : now' = now + d
    /\ ticks' = ticks + 1
    /\ UNCHANGED <<pc, passes, dbUp, connCache, dataCache, client, data_inicio,
                   data_fim, sel, df, out, metrics, fig, calls, hist, connTried>>

\* The database goes down or comes back.
DbFlip ==
    /\ dbUp' = ~dbUp
    /\ UNCHANGED <<pc, now, ticks, passes, connCache, dataCache, client,
                   data_inicio, data_fim, sel, df, out, metrics, fig, calls,
                   hist, connTried>>

Next == Rerun \/ Connect \/ Subsistemas \/ PrincipalFlow \/ Tick \/ DbFlip

Spec == Init /\ [][Next]_vars

(***************************************************************************)
(* SpecRender: the main section applied to tables drawn from wider sets.   *)
(* It starts where a pass stands after the multiselect, with the catalog   *)
(* AllNames fetched in this pass.                                          *)
(***************************************************************************)
InitRender ==
    LET t == CatalogTable(AllNames)
    IN  /\ pc = "principal"
        /\ now = 0
        /\ ticks = 0
        /\ passes = 1
        /\ dbUp = TRUE
        /\ connCache = <<[val |-> "client", msgs |-> <<>>]>>
        /\ dataCache = {[q |-> subsistemas_query, ins |-> 0, val |-> t, msgs |-> <<>>]}
        /\ client = "client"
        /\ data_inicio = 1
        /\ data_fim = 2
        /\ sel \in UserSelections(AllNames)
        /\ df = <<>>
        /\ out = <<"title", "markdown", "sidebar_header", "date_input", "multiselect">>
        /\ metrics = <<>>
        /\ fig = <<>>
        /\ calls = <<[q |-> subsistemas_query, t |-> 0, ret |-> t, up |-> TRUE,
                      failed |-> FALSE]>>
        /\ hist = {[q |-> subsistemas_query, t |-> 0, val |-> t, n |-> 1,
                    failed |-> FALSE]}
        /\ connTried = TRUE

NextRender == PrincipalLoads \/ PrincipalGens \/ PrincipalPresence

SpecRender == InitRender /\ [][NextRender]_vars

(***************************************************************************)
(* Vocabulary of the properties                                            *)
(***************************************************************************)
Rendered(x) == \E i \in DOMAIN out : out[i] = x

PassEnded == pc \in {"done", "stopped"}

\* Metrics, chart and detail panel are drawn.
Rendering ==
    /\ pc = "done"
    /\ Rendered("metric") /\ Rendered("plotly_chart") /\ Rendered("expander")

NoMainContent ==
    /\ ~Rendered("metric") /\ ~Rendered("plotly_chart") /\ ~Rendered("expander")
    /\ metrics = <<>> /\ fig = <<>>

CallsOf(kind) == {i \in DOMAIN calls : calls[i].q[1] = kind}

UpstreamCalls(kind) == {i \in CallsOf(kind) : calls[i].up}

Last(s) == s[Len(s)]

\* The selection widget of this pass returned the empty list.
EmptySelectionPass == Rendered("multiselect") /\ sel = <<>> /\ PassEnded

\* The catalog call of this pass returned no row.
EmptyCatalogPass == calls # <<>> /\ calls[1].q = subsistemas_query /\ calls[1].ret = <<>>

C2_EmptyCatalog ==
    EmptyCatalogPass =>
        /\ pc = "stopped"
        /\ Last(out) = "error_subsistemas"
        /\ Len(calls) = 1
        /\ CallsOf("principal") = {}
        /\ ~Rendered("multiselect")
        /\ NoMainContent

C2_Witness == EmptyCatalogPass /\ calls[1].up /\ ~calls[1].failed /\ passes = 2

(***************************************************************************)
(* C7 *)
(***************************************************************************)
\* C7: a failing upstream query is caught in load_data, a message is shown,
\* the pass halts without metrics, chart or detail table, and the query is
\* not issued again in that pass: upstream receives at most one catalog
\* query and at most one data query per pass.
C7_QueryError ==
    /\ Cardinality(UpstreamCalls("subsistemas")) <= 1
    /\ Cardinality(UpstreamCalls("principal")) <= 1
    /\ \A i \in DOMAIN calls :
        calls[i].failed =>
            /\ i = Len(calls)
            /\ calls[i].ret = <<>>
            /\ Rendered("error_consulta")
            /\ pc = "stopped"
            /\ NoMainContent

C7_Witness == Len(calls) = 2 /\ calls[2].failed /\ calls[2].q[1] = "principal"

(***************************************************************************)
(* C8 *)
(***************************************************************************)
\* The four conditions of C8, read off the pass.
AllAvailable ==
    /\ client = "client"
    /\ CallsOf("subsistemas") # {} /\ calls[1].ret # <<>>
    /\ sel # <<>>
    /\ CallsOf("principal") # {} /\ Last(calls).ret # <<>>

Messages ==
    {"error_conexao", "error_subsistemas", "warning_selecione", "warning_sem_dados"}

NewCall == IF Len(calls') = Len(calls) + 1 THEN {Last(calls')} ELSE {}

\* The latest upstream call for a query text before the step.
Prior(q) == {h \in hist : h.q = q}

C6_Original == (pc = "stopped" /\ client = "none") => connTried

(***************************************************************************)
(* C9 *)
(***************************************************************************)
HaltMessage(q) == IF q[1] = "subsistemas" THEN "error_subsistemas" ELSE "warning_sem_dados"

\* C9: a failed upstream query is stored in the result cache as an empty
\* table; while less than 300 seconds have passed since, every call with
\* the same query text gets the empty table without an upstream call and
\* the pass halts as for an empty catalog (or an empty result), whether or
\* not the database answers again.
C9_FailureCached ==
    [][\A c \in NewCall :
        /\ c.failed =>
            \E e \in dataCache' : e.q = c.q /\ e.ins = c.t /\ e.val = <<>>
        /\ \A h \in Prior(c.q) :
            (h.failed /\ c.t - h.t < TTL) =>
                /\ ~c.up
                /\ c.ret = <<>>
                /\ hist' = hist
                /\ pc' = "stopped"
                /\ Last(out') = HaltMessage(c.q)]_vars

C9_Witness ==
    /\ dbUp /\ pc = "stopped" /\ calls # <<>>
    /\ ~Last(calls).up /\ Last(calls).ret = <<>>
    /\ Last(calls).q[1] = "principal"
    /\ \E h \in hist : h.q = Last(calls).q /\ h.failed /\ Last(calls).t > h.t

(***************************************************************************)
(* C4 *)
(***************************************************************************)
RECURSIVE LoadSumTo(_, _)
LoadSumTo(d, k) == IF k = 0 THEN 0 ELSE d[k].val_carga + LoadSumTo(d, k - 1)

LoadSum == LoadSumTo(df, Len(df))

IsPeak(m) ==
    /\ \A i \in DOMAIN df : df[i].val_carga <= m
    /\ \E i \in DOMAIN df : df[i].val_carga = m

\* s is the fraction p/q (q > 0) rounded to the nearest integer, ties to even.
NearestInteger(s, p, q) ==
    LET dist == IF s * q >= p THEN s * q - p ELSE p - s * q
    IN  2 * dist <= q /\ (2 * dist = q => s % 2 = 0)

\* C4 (as stated): the displayed metrics are total energy = sum(load) / 2,
\* mean demand = sum(load) / rows, peak demand = max(load), over all rows.
C4_Original ==
    Rendering =>
        /\ 2 * metrics[1].energia_total_mwh = LoadSum
        /\ Len(df) * metrics[1].demanda_media_mw = LoadSum
        /\ IsPeak(metrics[1].pico_demanda_mw)

\* C4 (amended): the computed metrics are total energy = sum(load) / 2,
\* mean demand = sum(load) / rows and peak demand = max(load), each over all
\* rows of all selected subsystems together; each is displayed rounded to
\* the nearest whole number (ties to even), so the displayed figure equals
\* the computed one only when that is whole.
C4_Metrics ==
    Rendering =>
        LET m == metrics[1]
        IN  /\ m.carga_total[2] > 0 /\ m.demanda_media[2] > 0 /\ m.pico_demanda[2] > 0
            /\ 2 * m.carga_total[1] = LoadSum * m.carga_total[2]
            /\ Len(df) * m.demanda_media[1] = LoadSum * m.demanda_media[2]
            /\ \E k \in 1..Len(df) :
                /\ m.pico_demanda[1] = df[k].val_carga * m.pico_demanda[2]
                /\ IsPeak(df[k].val_carga)
            /\ NearestInteger(m.energia_total_mwh, LoadSum, 2)
            /\ NearestInteger(m.demanda_media_mw, LoadSum, Len(df))
            /\ IsPeak(m.pico_demanda_mw)

C4_Witness ==
    /\ Rendering /\ Len(df) = 2
    /\ df[1].nom_subsistema # df[2].nom_subsistema
    /\ df[1].val_carga = 1000 /\ df[2].val_carga = 2001
    /\ metrics[1].energia_total_mwh = 1500 /\ metrics[1].demanda_media_mw = 1500
    /\ metrics[1].pico_demanda_mw = 2001

(***************************************************************************)
(* C5 *)
(***************************************************************************)
RECURSIVE GenTotalTo(_, _)
GenTotalTo(d, k) == IF k = 0 THEN 0 ELSE d[k].geracao_total + GenTotalTo(d, k - 1)

\* C5: for every fetched table the renewable percentage lies in [0, 100]
\* and is 0 when the total generation of the window sums to 0.
C5_Original ==
    Rendering =>
        LET x == metrics[1].renovavel_pct
        IN  /\ x[2] > 0
            /\ 0 <= x[1] /\ x[1] <= 100 * x[2]
            /\ (GenTotalTo(df, Len(df)) = 0 => x[1] = 0)

(***************************************************************************)
(* C10 *)
(***************************************************************************)
HasRows(n) == \E k \in DOMAIN df : df[k].nom_subsistema = n

\* Selection positions (from 1) of the subsystems with a row in the table.
Plotted == {i \in DOMAIN sel : HasRows(sel[i])}

\* C10 (as stated): the chart holds exactly one series per selected
\* subsystem, in selection order, the one at selection index i coloured
\* with the palette colour i modulo the palette size.
C10_Original ==
    Rendering =>
        /\ Len(fig) = Len(sel)
        /\ \A i \in DOMAIN fig :
            i \in DOMAIN sel /\ fig[i].name = sel[i]
                /\ fig[i].color = (i - 1) % PaletteSize

\* C10 (amended): the chart holds exactly one series per selected subsystem
\* that has at least one row in the fetched table, in selection order; a
\* selected subsystem without rows gets no series; the series of the
\* subsystem at selection index i has the palette colour i modulo the
\* palette size, where i counts every selected subsystem, plotted or not.
C10_Chart ==
    Rendering =>
        /\ Len(fig) = Cardinality(Plotted)
        /\ \A k \in DOMAIN fig :
            \E i \in Plotted :
                /\ Cardinality({j \in Plotted : j < i}) = k - 1
                /\ fig[k].name = sel[i]
                /\ fig[k].color = (i - 1) % PaletteSize
                /\ Len(fig[k].y) = Cardinality({r \in DOMAIN df : df[r].nom_subsistema = sel[i]})

C10_Witness ==
    /\ Rendering /\ Len(sel) > PaletteSize
    /\ Len(fig) < Len(sel)
    /\ \E a, b \in DOMAIN fig : a # b /\ fig[a].color = fig[b].color

====
